---------------------------- MODULE Spec2Model ----------------------------
(***************************************************************************)
(* Model of sgmdata/plots/callbacks/eemscan/reset_2.x.x.js: the callback   *)
(* that resets the linked EEM plots.  JavaScript arrays live on a heap and *)
(* object properties hold references to them, so that assignment aliases   *)
(* and an array literal allocates.  The callback is modelled statement by  *)
(* statement (pc is the line about to run); the host runs callbacks one at *)
(* a time, so other handlers only act while the callback is not running.   *)
(***************************************************************************)
EXTENDS Integers, Sequences, FiniteSets

\* ------------------------------------------------------------------ bounds
MaxLen == 2       \* longest array placed in a container initially
MaxVal == 1       \* array elements range over 0 .. MaxVal
MaxResets == 2    \* invocations of the callback in one behaviour
MaxWrites == 1    \* in-place element writes by other handlers

VARIABLES
  heap,     \* address -> contents of the array stored there
  d2,       \* xrf.data : property name -> reference
  d3,       \* xas.data
  rect,     \* sel.data
  peak,     \* fluo.data
  det,      \* detector widget, [active |-> reference]
  alter,    \* toggle widget,   [active |-> number]
  pc,       \* "idle", the line about to run, or "done"
  log,      \* what the page has been told so far, in order: each
            \* change.emit() and each assignment to a widget's active
  pre,      \* history: the values seen when the callback was entered
  prev,     \* history: {values left by the preceding reset}, {} if none
            \*          or if another handler ran in between
  orig,     \* history: the values of the initial state
  resets,   \* number of invocations so far
  writes    \* number of element writes so far

vars == <<heap, d2, d3, rect, peak, det, alter, pc, log,
          pre, prev, orig, resets, writes>>

\* ------------------------------------------------------- JavaScript values
\* The value read from a property that is not there.
Undefined == 0

Range(f) == { f[k] : k \in DOMAIN f }

\* obj[key] as an rvalue: a missing key reads as undefined, without a fault.
Get(obj, key) == IF key \in DOMAIN obj THEN obj[key] ELSE Undefined

\* obj[key] = v: creates the property when it is missing.
Put(obj, key, v) ==
  [k \in DOMAIN obj \cup {key} |-> IF k = key THEN v ELSE obj[k]]

\* Addresses reachable from the six objects.
Roots(xrfd, xasd, seld, fluod, detw) ==
  (Range(xrfd) \cup Range(xasd) \cup Range(seld) \cup Range(fluod)
     \cup {detw.active}) \ {Undefined}

\* Arrays nothing refers to any more are reclaimed.
Gc(h, live) == [a \in DOMAIN h \cap live |-> h[a]]

\* Address of a newly created array: one that no live array occupies.
Fresh ==
  CHOOSE a \in 1 .. (Cardinality(DOMAIN heap) + 1) :
    /\ a \notin DOMAIN heap
    /\ \A b \in 1 .. (a - 1) : b \in DOMAIN heap

\* heap after evaluating an array literal with the given elements.
Literal(h, a, elems) == [x \in DOMAIN h \cup {a} |-> IF x = a THEN elems ELSE h[x]]

\* ---------------------------------------------------- observable contents
Val(h, r) ==
  IF r \in DOMAIN h THEN [kind |-> "array", elems |-> h[r]]
                    ELSE [kind |-> "undefined", elems |-> <<>>]

ObjView(h, obj) == [k \in DOMAIN obj |-> Val(h, obj[k])]

ViewOf(h, xrfd, xasd, seld, fluod, detw, alterw) ==
  [xrf |-> ObjView(h, xrfd), xas |-> ObjView(h, xasd),
   sel |-> ObjView(h, seld), fluo |-> ObjView(h, fluod),
   det |-> Val(h, detw.active), alter |-> alterw.active]

View == ViewOf(heap, d2, d3, rect, peak, det, alter)

\* ----------------------------------------------------------- program text
\* Variant: the detector widget is assigned before the last notification.
Order_widget_early ==
  << "L6", "L7", "L8", "L9", "L10", "L11", "L12", "L13", "L14", "L15",
     "L16", "L17", "L19", "L20", "L21", "L23", "L22", "L24" >>

\* Variant: the first notification is emitted before the peak overlay is
\* cleared.
Order_emit_early ==
  << "L6", "L7", "L8", "L9", "L10", "L11", "L12", "L13", "L19", "L14",
     "L15", "L16", "L17", "L20", "L21", "L22", "L23", "L24" >>

\* The statements in the order the callback runs them.
Order ==
  << "L6", "L7", "L8", "L9", "L10", "L11", "L12", "L13", "L14", "L15",
     "L16", "L17", "L19", "L20", "L21", "L22", "L23", "L24" >>

Labels == Range(Order)

Goto(l) ==
  LET i == CHOOSE j \in DOMAIN Order : Order[j] = l
  IN  IF i = Len(Order) THEN "done" ELSE Order[i + 1]


\* ---------------------------------------------------------- initial states
XrfCurrent == {"proj_x", "emission"}
XrfBaseline == {"proj_x_tot", "emission_tot"}
XasCurrent == {"en", "proj_y"}
XasBaseline == {"en_tot", "proj_y_tot"}
OverlayKeys == {"x", "y", "width", "height"}
Containers == {"fluo", "sel", "xas", "xrf"}

\* Where the initial arrays are placed.
XrfAddr == [proj_x |-> 1, emission |-> 2, proj_x_tot |-> 3, emission_tot |-> 4]
XasAddr == [en |-> 5, proj_y |-> 6, en_tot |-> 7, proj_y_tot |-> 8]
RectAddr == [x |-> 9, y |-> 10, width |-> 11, height |-> 12]
PeakAddr == [x |-> 13, y |-> 14, width |-> 15, height |-> 16]
DetAddr == 17

\* An array of n elements; s makes the arrays of different columns differ.
Arr(n, s) == [i \in 1 .. n |-> (s + i) % (MaxVal + 1)]

\* Columns of a plot source: nc current elements, nb baseline elements.
PlotColumn(a, nc, nb) ==
  IF a \in { XrfAddr[k] : k \in XrfCurrent } \cup { XasAddr[k] : k \in XasCurrent }
  THEN Arr(nc, a)
  ELSE Arr(nb, a + 1)

WidgetInits ==
  { [det |-> <<0>>, alter |-> 2],
    [det |-> <<1>>, alter |-> 0],
    [det |-> <<0, 1>>, alter |-> 1] }

\* What the page can hold when the callback is first triggered: baseline
\* columns of nb elements of which at most one is missing, current columns
\* of another length, ns selection rectangles and the complementary number
\* of peak markers, and any widget setting.
Init ==
  \E nb \in 0 .. MaxLen, ns \in 0 .. MaxLen, w \in WidgetInits,
     miss \in {{}} \cup { {k} : k \in XrfBaseline \cup XasBaseline } :
    /\ d2 = [k \in DOMAIN XrfAddr \ miss |-> XrfAddr[k]]
    /\ d3 = [k \in DOMAIN XasAddr \ miss |-> XasAddr[k]]
    /\ rect = RectAddr
    /\ peak = PeakAddr
    /\ det = [active |-> DetAddr]
    /\ alter = [active |-> w.alter]
    /\ heap = [a \in Roots(d2, d3, rect, peak, det) |->
                 IF a = DetAddr THEN w.det
                 ELSE IF a \in Range(RectAddr) THEN Arr(ns, a)
                 ELSE IF a \in Range(PeakAddr) THEN Arr(MaxLen - ns, a)
                 ELSE PlotColumn(a, MaxLen - nb, nb)]
    /\ pc = "idle"
    /\ log = <<>>
    /\ pre = View
    /\ prev = {}
    /\ orig = View
    /\ resets = 0
    /\ writes = 0

\* ------------------------------------------------------------- the callback
\* Lines 1-4 bind d2, d3, rect and peak to the sources' data objects.
Invoke ==
  /\ pc \in {"idle", "done"}
  /\ resets < MaxResets
  /\ pc' = Order[1]
  /\ pre' = View
  /\ prev' = IF pc = "done" THEN {View} ELSE {}
  /\ resets' = resets + 1
  /\ UNCHANGED <<heap, d2, d3, rect, peak, det, alter, log, orig, writes>>

\* A statement at line l that leaves the data objects and the heap as given.
Assign(l, xrfd, xasd, seld, fluod, h) ==
  /\ pc = l
  /\ pc' = Goto(l)
  /\ d2' = xrfd
  /\ d3' = xasd
  /\ rect' = seld
  /\ peak' = fluod
  /\ heap' = Gc(h, Roots(xrfd, xasd, seld, fluod, det))
  /\ UNCHANGED <<det, alter, log, pre, prev, orig, resets, writes>>

\* source.change.emit() at line l.
Emit(l, c) ==
  /\ pc = l
  /\ pc' = Goto(l)
  /\ log' = Append(log, <<c, "change.emit">>)
  /\ UNCHANGED <<heap, d2, d3, rect, peak, det, alter, pre, prev, orig,
                 resets, writes>>

\* Variants of single statements, each a slip the statement could contain.
d2_proj_x_from_emission ==
  Assign("L10", Put(d2, "proj_x", Get(d2, "emission")), d3, rect, peak, heap)

d2_proj_x_copy ==
  IF "proj_x_tot" \in DOMAIN d2
  THEN Assign("L10", Put(d2, "proj_x", Fresh), d3, rect, peak,
              Literal(heap, Fresh, heap[d2["proj_x_tot"]]))
  ELSE Assign("L10", Put(d2, "proj_x", Undefined), d3, rect, peak, heap)

d2_emission_wrong_key ==
  Assign("L11", Put(d2, "emission", Get(d2, "proj_x_tot")), d3, rect, peak, heap)

d3_en_reversed ==
  Assign("L12", d2, Put(d3, "en_tot", Get(d3, "en")), rect, peak, heap)

d3_proj_y_faulting ==
  /\ "proj_y_tot" \in DOMAIN d3
  /\ Assign("L13", d2, Put(d3, "proj_y", Get(d3, "proj_y_tot")), rect, peak, heap)

peak_width_as_height ==
  Assign("L16", d2, d3, rect, Put(peak, "height", Fresh), Literal(heap, Fresh, <<>>))

sel_emit_on_fluo == Emit("L20", "fluo")

alter_active_zero ==
  /\ pc = "L24"
  /\ pc' = Goto("L24")
  /\ alter' = [alter EXCEPT !.active = 0]
  /\ log' = Append(log, <<"alter", "active">>)
  /\ UNCHANGED <<heap, d2, d3, rect, peak, det, pre, prev, orig, resets, writes>>

\* The statements of the callback, line by line.
rect_x == Assign("L6", d2, d3, Put(rect, "x", Fresh), peak, Literal(heap, Fresh, <<>>))
rect_y == Assign("L7", d2, d3, Put(rect, "y", Fresh), peak, Literal(heap, Fresh, <<>>))
rect_width == Assign("L8", d2, d3, Put(rect, "width", Fresh), peak, Literal(heap, Fresh, <<>>))
rect_height == Assign("L9", d2, d3, Put(rect, "height", Fresh), peak, Literal(heap, Fresh, <<>>))

d2_proj_x == Assign("L10", Put(d2, "proj_x", Get(d2, "proj_x_tot")), d3, rect, peak, heap)
d2_emission == Assign("L11", Put(d2, "emission", Get(d2, "emission_tot")), d3, rect, peak, heap)
d3_en == Assign("L12", d2, Put(d3, "en", Get(d3, "en_tot")), rect, peak, heap)
d3_proj_y == Assign("L13", d2, Put(d3, "proj_y", Get(d3, "proj_y_tot")), rect, peak, heap)

peak_x == Assign("L14", d2, d3, rect, Put(peak, "x", Fresh), Literal(heap, Fresh, <<>>))
peak_y == Assign("L15", d2, d3, rect, Put(peak, "y", Fresh), Literal(heap, Fresh, <<>>))
peak_width == Assign("L16", d2, d3, rect, Put(peak, "width", Fresh), Literal(heap, Fresh, <<>>))
peak_height == Assign("L17", d2, d3, rect, Put(peak, "height", Fresh), Literal(heap, Fresh, <<>>))

fluo_emit == Emit("L19", "fluo")
sel_emit == Emit("L20", "sel")
xas_emit == Emit("L21", "xas")
xrf_emit == Emit("L22", "xrf")

det_active ==
  /\ pc = "L23"
  /\ pc' = Goto("L23")
  /\ det' = [det EXCEPT !.active = Fresh]
  /\ heap' = Gc(Literal(heap, Fresh, <<0>>), Roots(d2, d3, rect, peak, det'))
  /\ log' = Append(log, <<"det", "active">>)
  /\ UNCHANGED <<d2, d3, rect, peak, alter, pre, prev, orig, resets, writes>>

alter_active ==
  /\ pc = "L24"
  /\ pc' = Goto("L24")
  /\ alter' = [alter EXCEPT !.active = 2]
  /\ log' = Append(log, <<"alter", "active">>)
  /\ UNCHANGED <<heap, d2, d3, rect, peak, det, pre, prev, orig, resets, writes>>

\* --------------------------------------------------------- other handlers
\* While the callback is not running another handler of the page updates an
\* element of a displayed column in place: data[key][i] = v, with v another
\* value than the element had.
ElementWrite ==
  /\ pc \in {"idle", "done"}
  /\ writes < MaxWrites
  /\ \E r \in { Get(d2, k) : k \in XrfCurrent } \cup { Get(d3, k) : k \in XasCurrent } :
       /\ r \in DOMAIN heap
       /\ \E i \in 1 .. Len(heap[r]) :
            heap' = [heap EXCEPT ![r][i] = (heap[r][i] + 1) % (MaxVal + 1)]
  /\ pc' = "idle"
  /\ writes' = writes + 1
  /\ UNCHANGED <<d2, d3, rect, peak, det, alter, log, pre, prev, orig, resets>>

Next ==
  \/ Invoke
  \/ rect_x \/ rect_y \/ rect_width \/ rect_height
  \/ d2_proj_x \/ d2_emission \/ d3_en \/ d3_proj_y
  \/ peak_x \/ peak_y \/ peak_width \/ peak_height
  \/ fluo_emit \/ sel_emit \/ xas_emit \/ xrf_emit
  \/ det_active \/ alter_active
  \/ ElementWrite

Spec == Init /\ [][Next]_vars

\* ------------------------------------------------------------ properties
Pairs ==
  { [src |-> "xrf", cur |-> "proj_x", tot |-> "proj_x_tot"],
    [src |-> "xrf", cur |-> "emission", tot |-> "emission_tot"],
    [src |-> "xas", cur |-> "en", tot |-> "en_tot"],
    [src |-> "xas", cur |-> "proj_y", tot |-> "proj_y_tot"] }

Obj(p) == IF p.src = "xrf" THEN d2 ELSE d3
Present(p) == p.tot \in DOMAIN Obj(p)
CurVal(p) == Val(heap, Get(Obj(p), p.cur))
TotVal(p) == Val(heap, Get(Obj(p), p.tot))
SameArray(p) == Get(Obj(p), p.cur) = Get(Obj(p), p.tot)

MissingBaseline == \E p \in Pairs : ~Present(p)

EmptyArray == [kind |-> "array", elems |-> <<>>]

OverlaysEmpty ==
  \A k \in OverlayKeys :
    /\ Val(heap, Get(rect, k)) = EmptyArray
    /\ Val(heap, Get(peak, k)) = EmptyArray

WidgetsReset ==
  /\ Val(heap, det.active) = [kind |-> "array", elems |-> <<0>>]
  /\ alter.active = 2

Count(c, what) == Cardinality({ i \in DOMAIN log : log[i] = <<c, what>> })

\* Everything one run of the callback is meant to do has been done.
AllEffects ==
  /\ OverlaysEmpty
  /\ \A p \in Pairs : p.cur \in DOMAIN Obj(p) /\ SameArray(p)
  /\ \A c \in Containers : Count(c, "change.emit") = resets
  /\ WidgetsReset

\* C1: when all four baseline fields are present, after a reset each current
\* plot field has exactly the contents of its baseline (same length, same
\* elements).
C1_CurrentEqualsBaseline ==
  (pc = "done" /\ ~MissingBaseline) =>
     \A p \in Pairs : CurVal(p).kind = "array" /\ CurVal(p) = TotVal(p)

\* C1 witness: a reset has completed on a page whose current columns had
\* another length than their baselines.
C1_Witness ==
  /\ pc = "done"
  /\ ~MissingBaseline
  /\ Len(pre.xrf["proj_x"].elems) # Len(pre.xrf["proj_x_tot"].elems)
  /\ pre.xas["en"] # pre.xas["en_tot"]
  /\ Len(TotVal([src |-> "xrf", cur |-> "proj_x", tot |-> "proj_x_tot"]).elems) > 0

\* C2: after a reset all eight overlay fields (selection and peak: x, y,
\* width, height) are empty arrays, whatever they held before.
C2_OverlaysCleared == pc = "done" => OverlaysEmpty

\* C2 witness: a reset has completed on a page that showed both a selection
\* rectangle and a peak marker.
C2_Witness ==
  /\ pc = "done"
  /\ \A k \in OverlayKeys : pre.sel[k].elems # <<>> /\ pre.fluo[k].elems # <<>>

\* C3: after a reset the detector widget's active is the list [0] and the
\* toggle widget's active is the number 2, whatever they were before.
C3_WidgetsReset == pc = "done" => WidgetsReset

\* C3 witness: a reset has completed on a page whose widgets held other
\* values.
C3_Witness ==
  /\ pc = "done"
  /\ pre.det.elems # <<0>>
  /\ pre.alter # 2

\* C4: every invocation notifies each of the four containers exactly once:
\* after n completed resets each container has been notified n times, inside
\* a run never more than once, and change.emit is called on nothing else.
C4_OneNotificationEach ==
  /\ \A i \in DOMAIN log : log[i][2] = "change.emit" => log[i][1] \in Containers
  /\ \A c \in Containers :
       IF pc \in Labels
       THEN Count(c, "change.emit") \in {resets - 1, resets}
       ELSE Count(c, "change.emit") = resets

\* C4 witness: the callback has run twice and each container has been
\* notified twice.
C4_Witness ==
  /\ pc = "done"
  /\ resets = 2
  /\ \A c \in Containers : Count(c, "change.emit") = 2

\* C5: a reset that directly follows a reset leaves every container field and
\* both widgets' active with the values the first one left.
C5_Idempotent == (pc = "done" /\ prev # {}) => View \in prev

\* C5 witness: two resets in succession have completed, the first of which
\* changed the page.
C5_Witness ==
  /\ pc = "done"
  /\ prev # {}
  /\ View # orig

\* C6: no step of the callback changes a baseline field: neither the array it
\* refers to nor that array's elements; the only properties of xrf.data and
\* xas.data it assigns are the current fields.
C6_BaselinesUntouched ==
  [][ (pc \in Labels \/ pc' \in Labels) =>
        /\ \A k \in DOMAIN d2' \ XrfCurrent :
             k \in DOMAIN d2 /\ d2'[k] = d2[k] /\ Val(heap', d2'[k]) = Val(heap, d2[k])
        /\ \A k \in DOMAIN d3' \ XasCurrent :
             k \in DOMAIN d3 /\ d3'[k] = d3[k] /\ Val(heap', d3'[k]) = Val(heap, d3[k])
        /\ DOMAIN d2 \subseteq DOMAIN d2'
        /\ DOMAIN d3 \subseteq DOMAIN d3' ]_vars

\* C6 witness: a reset has completed that overwrote a current field, with the
\* baselines as they were on entry.
C6_Witness ==
  /\ pc = "done"
  /\ ~MissingBaseline
  /\ View.xrf["proj_x"] # pre.xrf["proj_x"]
  /\ View.xas["proj_y"] # pre.xas["proj_y"]
  /\ \A p \in Pairs : TotVal(p) = (IF p.src = "xrf" THEN pre.xrf ELSE pre.xas)[p.tot]

\* C7 as stated: on a page that lacks a baseline field the reset does not
\* complete with all of its effects performed.
C7_FailsOnMissingBaseline ==
  MissingBaseline => ~(pc = "done" /\ AllEffects)

\* C7 amended: a missing baseline field makes no statement of the callback
\* fault. The read yields undefined, the current field is assigned undefined,
\* and the run goes on to perform every other effect.
C7_CompletesOnMissingBaseline ==
  /\ (MissingBaseline /\ pc \in Labels) => ENABLED Next
  /\ (MissingBaseline /\ pc = "done") =>
        /\ AllEffects
        /\ \A p \in Pairs : ~Present(p) => CurVal(p).kind = "undefined"

\* C7 witness: a reset has completed on a page that lacks a baseline field,
\* and left the current field undefined.
C7_Witness ==
  /\ pc = "done"
  /\ AllEffects
  /\ \E p \in Pairs :
       ~Present(p) /\ p.cur \in DOMAIN Obj(p) /\ Get(Obj(p), p.cur) = Undefined

\* What one run tells the page, in order.
Effects ==
  << <<"fluo", "change.emit">>, <<"sel", "change.emit">>,
     <<"xas", "change.emit">>, <<"xrf", "change.emit">>,
     <<"det", "active">>, <<"alter", "active">> >>

\* C8: in every run the notifications come in the order peak (fluo),
\* selection, xas, xrf, and the widgets are assigned after the last of them,
\* the detector before the toggle.
C8_EffectOrder ==
  \A i \in DOMAIN log : log[i] = Effects[((i - 1) % Len(Effects)) + 1]

\* C8 witness: two runs have completed and told the page all twelve effects.
C8_Witness ==
  /\ pc = "done"
  /\ Len(log) = 2 * Len(Effects)

AboutToEmit == pc \in {"L19", "L20", "L21", "L22"}

\* C9: whenever a notification is about to be emitted, the data of all four
\* containers is already reset (overlays empty, every current field the array
\* of its baseline) and both widgets still hold the values they had when the
\* callback was entered.
C9_MutationsBeforeNotifications ==
  AboutToEmit =>
    /\ OverlaysEmpty
    /\ \A p \in Pairs : p.cur \in DOMAIN Obj(p) /\ SameArray(p)
    /\ Val(heap, det.active) = pre.det
    /\ alter.active = pre.alter

\* C9 witness: the last notification is about to be emitted on a page that
\* had overlays, current columns differing from the baselines and widget
\* values other than the reset ones.
C9_Witness ==
  /\ pc = "L22"
  /\ ~MissingBaseline
  /\ pre.sel["x"].elems # <<>>
  /\ pre.fluo["x"].elems # <<>>
  /\ pre.xrf["proj_x"] # pre.xrf["proj_x_tot"]
  /\ pre.det.elems # <<0>>
  /\ pre.alter # 2
  /\ ~WidgetsReset

\* C10: once a reset has run, each current field whose baseline is present is
\* the very same array as that baseline, so that an element written through
\* the current field is written to the baseline too.
C10_RestoredByReference ==
  (resets >= 1 /\ pc \in {"idle", "done"}) =>
     \A p \in Pairs : Present(p) => Get(Obj(p), p.cur) \in DOMAIN heap /\ SameArray(p)

\* C10 witness: reset, a write through a current field, reset: the baseline
\* no longer has its original elements and the second reset has restored the
\* current field to the changed ones.
C10_Witness ==
  /\ pc = "done"
  /\ resets = 2
  /\ writes = 1
  /\ \E p \in Pairs :
       /\ Present(p)
       /\ TotVal(p) # (IF p.src = "xrf" THEN orig.xrf ELSE orig.xas)[p.tot]
       /\ CurVal(p) = TotVal(p)

=============================================================================
